---- MODULE Spec2Model ----
(***************************************************************************)
(* Model of arduniocontroller.h (UnoJoy Arduino-side library).             *)
(*                                                                         *)
(* Foreground context: setupUnoJoy(), setupUnoJoy(int), setControllerData, *)
(* each a sequence of machine steps (the struct copies are byte stores).   *)
(* Interrupt context: ISR(TIMER0_COMPA_vect), which runs only while the    *)
(* compare-match interrupt is enabled (TIMSK0.OCIE0A) and the global       *)
(* interrupt flag (SREG.I) is set, and which the foreground cannot         *)
(* interrupt.  The ATmega8u2 on the other end of the serial line is the    *)
(* requester: it puts request bytes in the receive buffer and takes the    *)
(* response bytes from the transmit stream.                                *)
(***************************************************************************)
EXTENDS Integers, Sequences, FiniteSets, TLC

(***************************************************************************)
(* Bounds of the model.                                                    *)
(***************************************************************************)
\* largest request byte the requester sends (N..MaxOffset are out of range)
MaxOffset == 7
\* requests in flight: received and not yet answered plus answered and not yet sent
MaxOutstanding == 2
\* largest poll interval passed to setupUnoJoy(int)
MaxInterval == 2
\* distinct values adjacent memory is seen to hold: 0..MaxStray
MaxStray == 1

(***************************************************************************)
(* dataForController_t and its memory image.                               *)
(***************************************************************************)
\* sizeof(dataForController_t): 17 one-bit fields + 7 padding bits + 4 bytes
StructSize == 7

Offsets == 0 .. (StructSize - 1)

Bit == {0, 1}
Byte == 0 .. 255

\* The bit-fields in declaration order, allocated from bit 0 upwards.
ButtonFields == << "triangleOn", "circleOn", "squareOn", "crossOn",
                   "l1On", "l2On", "l3On", "r1On",
                   "r2On", "r3On", "selectOn", "startOn",
                   "homeOn", "dpadLeftOn", "dpadUpOn", "dpadRightOn",
                   "dpadDownOn" >>

RECURSIVE Pow2(_)
Pow2(n) == IF n = 0 THEN 1 ELSE 2 * Pow2(n - 1)

\* bit b (0 = least significant) of byte v
BitOf(v, b) == (v \div Pow2(b)) % 2

\* the byte made of the eight one-bit fields ButtonFields[from+1 .. from+8]
RECURSIVE PackBits(_, _, _)
PackBits(s, from, k) ==
    IF k = 8 THEN 0
    ELSE s[ButtonFields[from + k + 1]] * Pow2(k) + PackBits(s, from, k + 1)

\* Mutant: the padding bits are not part of the image.
SerializeWithoutPadding(s) ==
    << PackBits(s, 0, 0),
       PackBits(s, 8, 0),
       s.dpadDownOn,
       s.leftStickX, s.leftStickY, s.rightStickX, s.rightStickY >>

\* Mutant: the sticks come right after the first sixteen buttons.
SerializeSticksAtByte2(s) ==
    << PackBits(s, 0, 0),
       PackBits(s, 8, 0),
       s.leftStickX, s.leftStickY, s.rightStickX, s.rightStickY,
       s.dpadDownOn + 2 * s.padding >>

\* The object representation of a dataForController_t: what
\* ((uint8_t*)&x)[0 .. 6] reads.  A sequence, so offset i is element i+1.
Serialize(s) ==
    << PackBits(s, 0, 0),
       PackBits(s, 8, 0),
       s.dpadDownOn + 2 * s.padding,
       s.leftStickX, s.leftStickY, s.rightStickX, s.rightStickY >>

\* byte at offset i of a memory image
ByteAt(img, i) == img[i + 1]

\* A struct with every button bit set to b, the padding to p, the sticks to a.
Filled(b, p, a) ==
    [ triangleOn |-> b, circleOn |-> b, squareOn |-> b, crossOn |-> b,
      l1On |-> b, l2On |-> b, l3On |-> b, r1On |-> b,
      r2On |-> b, r3On |-> b, selectOn |-> b, startOn |-> b,
      homeOn |-> b, dpadLeftOn |-> b, dpadUpOn |-> b, dpadRightOn |-> b,
      dpadDownOn |-> b, padding |-> p,
      leftStickX |-> a, leftStickY |-> a, rightStickX |-> a, rightStickY |-> a ]

\* Mutant: the sticks are zeroed with the buttons instead of centred.
getBlankSticksZero(g) == Filled(0, g, 0)

\* getBlankDataForController(): every button 0, every stick 128; the local is
\* never initialised and `padding` is never assigned, so those seven bits
\* are whatever the stack held: g.
getBlankDataForController(g) == Filled(0, g, 128)

\* largest value of the 7-bit field `padding`
PaddingMax == 127

\* the values the seven never-assigned bits can hold
Garbage == 0 .. PaddingMax

\* What the application hands to setControllerData: the documented usage
\* (a blank value with triangleOn = 1 and leftStickX = 200) and the two
\* extreme memory images (all bits 0, all bits 1).
Pressed == [getBlankDataForController(0) EXCEPT !.triangleOn = 1, !.leftStickX = 200]

SnapshotInputs == {Filled(0, 0, 0), Filled(1, 127, 255), Pressed}

\* the memory image of the blank value whose padding bits hold g
BlankImage == [g \in Garbage |-> Serialize(getBlankDataForController(g))]

BlankImages == {BlankImage[g] : g \in Garbage}

\* the memory images of the values setupUnoJoy and setControllerData install
WholeImages == {Serialize(s) : s \in SnapshotInputs} \cup BlankImages

\* The intervals passed to setupUnoJoy(int): 0 .. MaxInterval and a negative
\* one, whose low byte is MaxInterval and whose high byte is 0xFF, so that a
\* read between the two byte stores of the interval can give a value
\* (MaxInterval) that neither the old nor the new interval is.
NegInterval == MaxInterval - 256

Intervals == {NegInterval} \cup (0 .. MaxInterval)

Requests == 0 .. MaxOffset

Stray == 0 .. MaxStray

\* int is 16 bits wide on the AVR: the two bytes of its two's complement
\* representation, and the value two bytes represent
Int16Lo(v) == v % 256

Int16Hi(v) == (v % 65536) \div 256

Int16(lo, hi) == IF hi >= 128 THEN hi * 256 + lo - 65536 ELSE hi * 256 + lo

\* `serialCheckInterval = interval` is two byte stores that the handler can
\* separate; which byte is stored first is the compiler's choice.  The
\* values the variable can hold between the two stores:
TornInterval(old, new) ==
    { Int16(Int16Lo(new), Int16Hi(old)), Int16(Int16Lo(old), Int16Hi(new)) }

\* a byte of a returned value whose bits are not all determined yet
Indeterminate == 256

\* The memory image of the value getBlankDataForController() has returned to
\* setupUnoJoy, before it is stored: the byte that holds the padding bits is
\* indeterminate until it is stored.
BlankReturned ==
    [i \in 1 .. StructSize |->
        IF \A g \in Garbage : BlankImage[g][i] = BlankImage[0][i]
        THEN BlankImage[0][i]
        ELSE Indeterminate]

(***************************************************************************)
(* State.                                                                  *)
(***************************************************************************)
VARIABLES
    controllerDataBuffer,   \* memory image of the global, StructSize bytes
    serialCheckInterval,    \* volatile int, statically 1
    serialCheckCounter,     \* int, statically 0
    OCIE0A,                 \* TIMSK0 bit: compare-match A interrupt enabled
    SREG_I,                 \* global interrupt enable flag
    serialBegun,            \* Serial.begin has run
    pin13Output,            \* pinMode(13, OUTPUT) has run
    serialRx,               \* request bytes received and not yet read
    serialTx,               \* response bytes written and not yet sent
    pc,                     \* where the foreground is
    copyIdx,                \* bytes setControllerData has copied so far
    copySrc,                \* memory image being copied from
    reqNext,                \* the offset the in-order requester sends next
    intervalArg,            \* << k >>: the argument of the setupUnoJoy(int) call
                            \*   in progress, << >> otherwise
    tickInStore             \* the handler has run between the two byte stores
                            \*   of `serialCheckInterval = interval`

progVars == << controllerDataBuffer, serialCheckInterval, serialCheckCounter,
               OCIE0A, SREG_I, serialBegun, pin13Output, serialRx, serialTx,
               pc, copyIdx, copySrc, reqNext, intervalArg, tickInStore >>

(***************************************************************************)
(* History of a run, recorded for the properties below.  It is never read  *)
(* by the program.  One observer records at a time (observe, fixed at the  *)
(* start), the histories of the others keep their initial values.          *)
(***************************************************************************)
VARIABLES
    observe,        \* which history is recorded, see Observers
    lastSet,        \* << s >>: the argument of the latest setControllerData call;
                    \*   << >> before any call and once a later setupUnoJoy
                    \*   has returned (recorded by every observer)
    lastServed,     \* "served": << offset, byte >> of the latest request served
                    \*   since the latest setControllerData call, << >> if none
    readOutside,    \* "outside": the handler has read a byte outside
                    \*   controllerDataBuffer
    passLen,        \* "pass": the requester's current in-order pass over the
                    \*   offsets has had its requests 0 .. passLen-1 answered
                    \*   (passes answered while no setupUnoJoy call is running)
    passWhole,      \* "pass": the images of WholeImages that agree with every
                    \*   response of the pass so far
    passClean,      \* "pass": setControllerData was not called since the
                    \*   first response of the pass
    tickPhase,      \* handler invocations, modulo the interval, counted
                    \*   "cadence": since the first return of setupUnoJoy, as
                    \*      long as setupUnoJoy is not called again;
                    \*   "recadence": since the latest return of setupUnoJoy
    lastTick,       \* "cadence", "recadence": "poll"/"skip", what the latest
                    \*   counted invocation did; "none" if there is none
    reconfigured,   \* "cadence": setupUnoJoy was called again after its first
                    \*   return
    latency,        \* "latency": << "wait", r >>: a handler invocation found
                    \*   requests in the buffer and left them there; the
                    \*   interval it read allows r more invocations
                    \*   for the answer.  << "done", r >>: the latest such
                    \*   requests were answered with r invocations to spare.
                    \*   << >>: none yet, or the interval was stored since.
    calledMasked    \* "forceon": the latest setControllerData call was made
                    \*   with interrupts disabled

histVars == << observe, lastSet, lastServed, readOutside, passLen, passWhole,
               passClean, tickPhase, lastTick, reconfigured, latency,
               calledMasked >>

(***************************************************************************)
(* The application's own variable (dataForController_t ControllerData;),   *)
(* used by the specification of the value functions, SpecApp.              *)
(***************************************************************************)
VARIABLES
    appData,        \* << s >>: the application's struct
    appBlank,       \* appData is a value getBlankDataForController returned, unchanged
    blankReturns    \* << image >>: memory image of the latest value
                    \*   getBlankDataForController returned

appVars == << appData, appBlank, blankReturns >>

vars == << progVars, histVars, appVars >>

\* the histories recorded under the specification of the whole library;
\* the specifications of the sketches below each name their own
Observers == {"outside"}

\* Before setup() runs: the statics hold their initialisers, the zero-initialised
\* global buffer is all 0, the Arduino core has enabled interrupts globally,
\* the compare-match interrupt is off and the serial port is closed.
InitProg ==
    /\ controllerDataBuffer = [i \in 1 .. StructSize |-> 0]
    /\ serialCheckInterval = 1
    /\ serialCheckCounter = 0
    /\ OCIE0A = FALSE
    /\ SREG_I = TRUE
    /\ serialBegun = FALSE
    /\ pin13Output = FALSE
    /\ serialRx = << >>
    /\ serialTx = << >>
    /\ pc = "idle"
    /\ copyIdx = 0
    /\ copySrc = << >>
    /\ reqNext = 0
    /\ intervalArg = << >>
    /\ tickInStore = FALSE

InitHist ==
    /\ lastSet = << >>
    /\ lastServed = << >>
    /\ readOutside = FALSE
    /\ passLen = 0
    /\ passWhole = {}
    /\ passClean = FALSE
    /\ tickPhase = 0
    /\ lastTick = "none"
    /\ reconfigured = FALSE
    /\ latency = << >>
    /\ calledMasked = FALSE

\* `dataForController_t ControllerData;` declared with static storage: all 0
InitApp ==
    /\ appData = << Filled(0, 0, 0) >>
    /\ appBlank = FALSE
    /\ blankReturns = << >>

Init ==
    /\ InitProg
    /\ InitHist
    /\ InitApp
    /\ observe \in Observers

(***************************************************************************)
(* Recording.                                                              *)
(***************************************************************************)
\* a step of setControllerData: the pass is no longer one served between calls
HistSetStep ==
    /\ passClean' = FALSE
    /\ UNCHANGED << observe, lastServed, readOutside, passLen, passWhole,
                    tickPhase, lastTick, calledMasked >>

\* a step of setupUnoJoy: the pass in progress is dropped
HistSetupStep ==
    /\ passLen' = 0
    /\ passWhole' = {}
    /\ passClean' = FALSE
    /\ UNCHANGED << observe, lastServed, readOutside,
                    tickPhase, lastTick, calledMasked >>

\* a call of setupUnoJoy: the same, and after the first return of
\* setupUnoJoy the count of "cadence" ends
HistSetupCall ==
    /\ passLen' = 0
    /\ passWhole' = {}
    /\ passClean' = FALSE
    /\ IF observe = "cadence" /\ OCIE0A
       THEN /\ reconfigured' = TRUE
            /\ tickPhase' = 0
            /\ lastTick' = "none"
       ELSE UNCHANGED << reconfigured, tickPhase, lastTick >>
    /\ UNCHANGED << observe, lastServed, readOutside, calledMasked >>

\* the pass after the request off was answered with byte b
PassStep(p, off, b, idle) ==
    IF off = 0 /\ idle
    THEN [len |-> 1, whole |-> {w \in WholeImages : ByteAt(w, 0) = b}, clean |-> TRUE]
    ELSE IF off = p.len /\ off > 0 /\ off < StructSize
         THEN [len |-> p.len + 1, whole |-> {w \in p.whole : ByteAt(w, off) = b},
               clean |-> p.clean]
         ELSE [len |-> 0, whole |-> {}, clean |-> FALSE]

RECURSIVE PassFold(_, _, _, _, _)
PassFold(p, rq, rs, j, idle) ==
    IF j > Len(rq) THEN p
    ELSE PassFold(PassStep(p, rq[j], rs[j], idle), rq, rs, j + 1, idle)

\* handler invocations counted modulo the interval
NextPhase(ph, interval) == IF interval >= 1 THEN (ph + 1) % interval ELSE 0

(***************************************************************************)
(* Foreground: setControllerData.                                          *)
(***************************************************************************)
\* Call and entry of ATOMIC_BLOCK(ATOMIC_FORCEON): the argument is passed by
\* value, then interrupts are disabled.
setControllerData(controllerData) ==
    /\ pc = "idle"
    /\ copySrc' = Serialize(controllerData)
    /\ copyIdx' = 0
    /\ SREG_I' = FALSE
    /\ pc' = "set_copy"
    /\ UNCHANGED << controllerDataBuffer, serialCheckInterval, serialCheckCounter,
                    OCIE0A, serialBegun, pin13Output, serialRx, serialTx >>
    /\ lastSet' = << controllerData >>
    /\ lastServed' = << >>
    /\ passClean' = FALSE
    /\ calledMasked' = (observe = "forceon" /\ ~SREG_I)
    /\ UNCHANGED << observe, readOutside, passLen, passWhole, tickPhase,
                    lastTick, reconfigured, latency >>
    /\ UNCHANGED << appVars, reqNext >>
    /\ UNCHANGED << intervalArg, tickInStore >>

\* Mutant: the copy stops one byte short of the struct.
StoreByteShort ==
    /\ pc = "set_copy"
    /\ copyIdx < StructSize
    /\ controllerDataBuffer' =
           IF copyIdx < StructSize - 1
           THEN [controllerDataBuffer EXCEPT ![copyIdx + 1] = copySrc[copyIdx + 1]]
           ELSE controllerDataBuffer
    /\ copyIdx' = copyIdx + 1
    /\ UNCHANGED << serialCheckInterval, serialCheckCounter, OCIE0A, SREG_I,
                    serialBegun, pin13Output, serialRx, serialTx, pc, copySrc >>
    /\ HistSetStep
    /\ UNCHANGED << lastSet, reconfigured, latency >>
    /\ UNCHANGED << appVars, reqNext >>
    /\ UNCHANGED << intervalArg, tickInStore >>

\* One byte store of `controllerDataBuffer = controllerData`.  Interrupts are
\* disabled, so the order of the stores is not observable.
StoreByte ==
    /\ pc = "set_copy"
    /\ copyIdx < StructSize
    /\ controllerDataBuffer' =
           [controllerDataBuffer EXCEPT ![copyIdx + 1] = copySrc[copyIdx + 1]]
    /\ copyIdx' = copyIdx + 1
    /\ UNCHANGED << serialCheckInterval, serialCheckCounter, OCIE0A, SREG_I,
                    serialBegun, pin13Output, serialRx, serialTx, pc, copySrc >>
    /\ HistSetStep
    /\ UNCHANGED << lastSet, reconfigured, latency >>
    /\ UNCHANGED << appVars, reqNext >>
    /\ UNCHANGED << intervalArg, tickInStore >>

\* Mutant: the block restores the interrupt flag it found (as
\* ATOMIC_RESTORESTATE would).
setControllerDataExitRestore ==
    /\ pc = "set_copy"
    /\ copyIdx = StructSize
    /\ SREG_I' = ~calledMasked
    /\ pc' = "idle"
    /\ copyIdx' = 0
    /\ copySrc' = << >>
    /\ UNCHANGED << controllerDataBuffer, serialCheckInterval, serialCheckCounter,
                    OCIE0A, serialBegun, pin13Output, serialRx, serialTx >>
    /\ HistSetStep
    /\ UNCHANGED << lastSet, reconfigured, latency >>
    /\ UNCHANGED << appVars, reqNext >>
    /\ UNCHANGED << intervalArg, tickInStore >>

\* Mutant: the call also restarts the poll count.
setControllerDataExitRestart ==
    /\ pc = "set_copy"
    /\ copyIdx = StructSize
    /\ SREG_I' = TRUE
    /\ pc' = "idle"
    /\ copyIdx' = 0
    /\ copySrc' = << >>
    /\ serialCheckCounter' = 0
    /\ UNCHANGED << controllerDataBuffer, serialCheckInterval,
                    OCIE0A, serialBegun, pin13Output, serialRx, serialTx >>
    /\ HistSetStep
    /\ UNCHANGED << lastSet, reconfigured, latency >>
    /\ UNCHANGED << appVars, reqNext >>
    /\ UNCHANGED << intervalArg, tickInStore >>

\* Exit of ATOMIC_BLOCK(ATOMIC_FORCEON): interrupts are enabled, whatever
\* they were on entry; the function returns.
setControllerDataExit ==
    /\ pc = "set_copy"
    /\ copyIdx = StructSize
    /\ SREG_I' = TRUE
    /\ pc' = "idle"
    /\ copyIdx' = 0
    /\ copySrc' = << >>
    /\ UNCHANGED << controllerDataBuffer, serialCheckInterval, serialCheckCounter,
                    OCIE0A, serialBegun, pin13Output, serialRx, serialTx >>
    /\ HistSetStep
    /\ UNCHANGED << lastSet, reconfigured, latency >>
    /\ UNCHANGED << appVars, reqNext >>
    /\ UNCHANGED << intervalArg, tickInStore >>

(***************************************************************************)
(* Foreground: setupUnoJoy.                                                *)
(***************************************************************************)
\* Mutant: the buffer is not seeded with the blank value.
setupUnoJoyUnseeded ==
    /\ pc = "idle"
    /\ copySrc' = BlankReturned
    /\ copyIdx' = 0
    /\ pc' = "setup_serial"
    /\ UNCHANGED << controllerDataBuffer, serialCheckInterval, serialCheckCounter,
                    OCIE0A, SREG_I, serialBegun, pin13Output, serialRx, serialTx >>
    /\ HistSetupCall
    /\ UNCHANGED << lastSet, latency >>
    /\ UNCHANGED << appVars, reqNext >>
    /\ UNCHANGED << intervalArg, tickInStore >>

\* Mutant: the compare-match interrupt is enabled first.
setupUnoJoyTimerFirst ==
    /\ pc = "idle"
    /\ copySrc' = BlankReturned
    /\ copyIdx' = 0
    /\ pc' = "setup_copy"
    /\ OCIE0A' = TRUE
    /\ UNCHANGED << controllerDataBuffer, serialCheckInterval, serialCheckCounter,
                    SREG_I, serialBegun, pin13Output, serialRx, serialTx >>
    /\ HistSetupCall
    /\ UNCHANGED << lastSet, latency >>
    /\ UNCHANGED << appVars, reqNext >>
    /\ UNCHANGED << intervalArg, tickInStore >>

\* setupUnoJoy(void) up to the struct assignment: getBlankDataForController()
\* has returned its value.
setupUnoJoy ==
    /\ pc = "idle"
    /\ copySrc' = BlankReturned
    /\ copyIdx' = 0
    /\ pc' = "setup_copy"
    /\ UNCHANGED << controllerDataBuffer, serialCheckInterval, serialCheckCounter,
                    OCIE0A, SREG_I, serialBegun, pin13Output, serialRx, serialTx >>
    /\ HistSetupCall
    /\ UNCHANGED << lastSet, latency >>
    /\ UNCHANGED << appVars, reqNext >>
    /\ UNCHANGED << intervalArg, tickInStore >>

\* setupUnoJoy(int), call and first byte store of `serialCheckInterval =
\* interval`.
setupUnoJoyInt(interval) ==
    /\ pc = "idle"
    /\ serialCheckInterval' \in TornInterval(serialCheckInterval, interval)
    /\ intervalArg' = << interval >>
    /\ tickInStore' = FALSE
    /\ copySrc' = BlankReturned
    /\ copyIdx' = 0
    /\ pc' = "setup_interval"
    /\ UNCHANGED << controllerDataBuffer, serialCheckCounter,
                    OCIE0A, SREG_I, serialBegun, pin13Output, serialRx, serialTx >>
    /\ HistSetupCall
    /\ latency' = << >>
    /\ UNCHANGED lastSet
    /\ UNCHANGED << appVars, reqNext >>

\* Second byte store of `serialCheckInterval = interval`, then the call of
\* setupUnoJoy(void) up to its struct assignment.
StoreInterval ==
    /\ pc = "setup_interval"
    /\ serialCheckInterval' = intervalArg[1]
    /\ tickInStore' = FALSE
    /\ pc' = "setup_copy"
    /\ UNCHANGED << controllerDataBuffer, serialCheckCounter, OCIE0A, SREG_I,
                    serialBegun, pin13Output, serialRx, serialTx, copyIdx,
                    copySrc, intervalArg >>
    /\ HistSetupStep
    /\ latency' = << >>
    /\ UNCHANGED << lastSet, reconfigured >>
    /\ UNCHANGED << appVars, reqNext >>

\* One byte store of `controllerDataBuffer = getBlankDataForController()`.
\* The assignment fixes no order of the stores and the handler can run between
\* any two of them: a step stores any one of the bytes still to be stored (a
\* store that leaves the byte as it was is not told apart from no store).
\* The byte of the padding bits is stored with whatever they hold: g.
StoreBlankByte ==
    /\ pc = "setup_copy"
    /\ \E i \in 1 .. StructSize, g \in Garbage :
          /\ IF copySrc[i] = Indeterminate
             THEN copySrc' = [copySrc EXCEPT ![i] = BlankImage[g][i]]
             ELSE /\ g = 0
                  /\ controllerDataBuffer[i] # copySrc[i]
                  /\ UNCHANGED copySrc
          /\ controllerDataBuffer' = [controllerDataBuffer EXCEPT ![i] = copySrc'[i]]
          /\ pc' = IF controllerDataBuffer' = copySrc'
                   THEN "setup_serial" ELSE "setup_copy"
    /\ UNCHANGED << serialCheckInterval, serialCheckCounter, OCIE0A, SREG_I,
                    serialBegun, pin13Output, serialRx, serialTx, copyIdx >>
    /\ HistSetupStep
    /\ UNCHANGED << lastSet, reconfigured, latency >>
    /\ UNCHANGED << appVars, reqNext >>
    /\ UNCHANGED << intervalArg, tickInStore >>

\* Serial.begin(38400)
SerialBegin ==
    /\ pc = "setup_serial"
    /\ serialBegun' = TRUE
    /\ pc' = "setup_timer"
    /\ UNCHANGED << controllerDataBuffer, serialCheckInterval, serialCheckCounter,
                    OCIE0A, SREG_I, pin13Output, serialRx, serialTx, copyIdx, copySrc >>
    /\ HistSetupStep
    /\ UNCHANGED << lastSet, reconfigured, latency >>
    /\ UNCHANGED << appVars, reqNext >>
    /\ UNCHANGED << intervalArg, tickInStore >>

\* OCR0A = 128; TIMSK0 |= (1 << OCIE0A); return
TimerEnable ==
    /\ pc = "setup_timer"
    /\ OCIE0A' = TRUE
    /\ pc' = "idle"
    /\ copyIdx' = 0
    /\ copySrc' = << >>
    /\ UNCHANGED << controllerDataBuffer, serialCheckInterval, serialCheckCounter,
                    SREG_I, serialBegun, pin13Output, serialRx, serialTx >>
    /\ lastSet' = << >>
    /\ passLen' = 0
    /\ passWhole' = {}
    /\ passClean' = FALSE
    /\ IF observe = "recadence"
       THEN /\ tickPhase' = 0
            /\ lastTick' = "none"
       ELSE UNCHANGED << tickPhase, lastTick >>
    /\ UNCHANGED << observe, lastServed, readOutside, reconfigured, latency,
                    calledMasked >>
    /\ UNCHANGED << appVars, reqNext >>
    /\ intervalArg' = << >>
    /\ UNCHANGED tickInStore

(***************************************************************************)
(* Interrupt: ISR(TIMER0_COMPA_vect).                                      *)
(***************************************************************************)
\* ((uint8_t*)&controllerDataBuffer)[inByte]: inside the object for
\* inByte < sizeof, a byte of whatever lies behind it otherwise (stray).
ReadBuffer(buf, inByte, stray) ==
    IF inByte < StructSize THEN ByteAt(buf, inByte) ELSE stray

\* Mutant: a do-while loop, which reads once before it asks whether a byte
\* is available (Serial.read() gives -1 then, the byte 255).
ResponsesDoWhile(buf, rq, strays) ==
    IF rq = << >>
    THEN << ReadBuffer(buf, 255, 0) >>
    ELSE [j \in 1 .. Len(rq) |-> ReadBuffer(buf, rq[j], strays[j])]

\* the bytes the drain loop writes for the requests rq, in order
Responses(buf, rq, strays) ==
    [j \in 1 .. Len(rq) |-> ReadBuffer(buf, rq[j], strays[j])]

\* Mutant: == for >=.
PollDueEqual(counter, interval) == counter = interval

\* Mutant: the poll comes two invocations late.
PollDueLate(counter, interval) == counter > interval + 1

\* Mutant: > for >=.
PollDueStrict(counter, interval) == counter > interval

\* serialCheckCounter >= serialCheckInterval, after the increment
PollDue(counter, interval) == counter >= interval

\* the handler's invocation is counted
Counted == observe = "recadence" \/ (observe = "cadence" /\ ~reconfigured)

\* what "latency" records of a handler invocation that found the requests
\* rq and read the interval as given; poll: it answered them
HistLatency(rq, interval, poll) ==
    IF observe # "latency" THEN latency
    ELSE IF poll
         THEN IF latency # << >> /\ latency[1] = "wait"
              THEN << "done", latency[2] - 1 >>
              ELSE latency
         ELSE IF rq = << >> THEN latency
              ELSE IF latency # << >> /\ latency[1] = "wait"
                   THEN << "wait", latency[2] - 1 >>
                   ELSE << "wait", interval >>

\* what the observers record of a poll that answered rq with rs
HistPoll(rq, rs) ==
    /\ IF observe = "served" /\ rq # << >>
       THEN lastServed' = << rq[Len(rq)], rs[Len(rq)] >>
       ELSE UNCHANGED lastServed
    /\ IF observe = "outside"
       THEN readOutside' = (readOutside \/ \E j \in 1 .. Len(rq) : rq[j] >= StructSize)
       ELSE UNCHANGED readOutside
    /\ IF observe = "pass"
       THEN LET p == PassFold([len |-> passLen, whole |-> passWhole, clean |-> passClean],
                              rq, rs, 1, pc = "idle")
            IN  /\ passLen' = p.len
                /\ passWhole' = p.whole
                /\ passClean' = p.clean
       ELSE UNCHANGED << passLen, passWhole, passClean >>

TIMER0_COMPA_vect ==
    /\ OCIE0A
    /\ SREG_I
    /\ pc = "setup_interval" => ~tickInStore
    /\ IF PollDue(serialCheckCounter + 1, serialCheckInterval)
       THEN /\ serialCheckCounter' = 0
            /\ \E strays \in [1 .. Len(serialRx) -> Stray] :
                 LET rs == Responses(controllerDataBuffer, serialRx, strays)
                 IN  /\ serialTx' = serialTx \o rs
                     /\ HistPoll(serialRx, rs)
            /\ serialRx' = << >>
            /\ pin13Output' = (pin13Output \/ Len(serialRx) > 0)
            /\ lastTick' = IF Counted THEN "poll" ELSE lastTick
       ELSE /\ serialCheckCounter' = serialCheckCounter + 1
            /\ UNCHANGED << serialRx, serialTx, pin13Output >>
            /\ lastTick' = IF Counted THEN "skip" ELSE lastTick
            /\ UNCHANGED << lastServed, readOutside, passLen, passWhole, passClean >>
    /\ UNCHANGED << controllerDataBuffer, serialCheckInterval, OCIE0A, SREG_I,
                    serialBegun, pc, copyIdx, copySrc >>
    /\ tickPhase' = IF Counted
                    THEN NextPhase(tickPhase, serialCheckInterval)
                    ELSE tickPhase
    /\ latency' = HistLatency(serialRx, serialCheckInterval,
                               PollDue(serialCheckCounter + 1, serialCheckInterval))
    /\ UNCHANGED << observe, lastSet, reconfigured, calledMasked >>
    /\ UNCHANGED << appVars, reqNext >>
    /\ tickInStore' = (pc = "setup_interval")
    /\ UNCHANGED intervalArg

(***************************************************************************)
(* The application's own critical sections.                                *)
(***************************************************************************)
\* noInterrupts(): the sketch disables interrupts before it calls into the
\* library.
noInterrupts ==
    /\ pc = "idle"
    /\ SREG_I
    /\ SREG_I' = FALSE
    /\ UNCHANGED << controllerDataBuffer, serialCheckInterval, serialCheckCounter,
                    OCIE0A, serialBegun, pin13Output, serialRx, serialTx,
                    pc, copyIdx, copySrc >>
    /\ UNCHANGED histVars
    /\ UNCHANGED << appVars, reqNext >>
    /\ UNCHANGED << intervalArg, tickInStore >>

(***************************************************************************)
(* The serial line.                                                        *)
(***************************************************************************)
\* a request byte arrives in the receive buffer
Request(inByte) ==
    /\ serialBegun
    /\ Len(serialRx) + Len(serialTx) < MaxOutstanding
    /\ serialRx' = Append(serialRx, inByte)
    /\ UNCHANGED << controllerDataBuffer, serialCheckInterval, serialCheckCounter,
                    OCIE0A, SREG_I, serialBegun, pin13Output, serialTx,
                    pc, copyIdx, copySrc >>
    /\ UNCHANGED histVars
    /\ UNCHANGED << appVars, reqNext >>
    /\ UNCHANGED << intervalArg, tickInStore >>

\* the requester as the firmware on the other chip behaves: it asks for
\* the offsets 0, 1, ..., sizeof-1 in order, pass after pass
RequestInOrder ==
    /\ serialBegun
    /\ Len(serialRx) + Len(serialTx) < MaxOutstanding
    /\ serialRx' = Append(serialRx, reqNext)
    /\ reqNext' = (reqNext + 1) % StructSize
    /\ UNCHANGED << controllerDataBuffer, serialCheckInterval, serialCheckCounter,
                    OCIE0A, SREG_I, serialBegun, pin13Output, serialTx,
                    pc, copyIdx, copySrc >>
    /\ UNCHANGED histVars
    /\ UNCHANGED appVars
    /\ UNCHANGED << intervalArg, tickInStore >>

\* the oldest response byte leaves on the wire
Transmit ==
    /\ serialTx # << >>
    /\ serialTx' = Tail(serialTx)
    /\ UNCHANGED << controllerDataBuffer, serialCheckInterval, serialCheckCounter,
                    OCIE0A, SREG_I, serialBegun, pin13Output, serialRx,
                    pc, copyIdx, copySrc >>
    /\ UNCHANGED histVars
    /\ UNCHANGED << appVars, reqNext >>
    /\ UNCHANGED << intervalArg, tickInStore >>

Next ==
    \/ \E s \in SnapshotInputs : setControllerData(s)
    \/ StoreByte
    \/ setControllerDataExit
    \/ setupUnoJoy
    \/ \E i \in Intervals : setupUnoJoyInt(i)
    \/ StoreInterval
    \/ StoreBlankByte
    \/ SerialBegin
    \/ TimerEnable
    \/ TIMER0_COMPA_vect
    \/ \E r \in Requests : Request(r)
    \/ Transmit

Spec == Init /\ [][Next]_vars

\* The foreground idle after setupUnoJoy has returned for the first time, with
\* the interval k in force: the buffer holds a blank value, the serial port is
\* open and the compare-match interrupt is enabled.
Ready(k) ==
    /\ controllerDataBuffer \in BlankImages
    /\ serialCheckInterval = k
    /\ serialCheckCounter = 0
    /\ OCIE0A = TRUE
    /\ SREG_I = TRUE
    /\ serialBegun = TRUE
    /\ pin13Output = FALSE
    /\ serialRx = << >>
    /\ serialTx = << >>
    /\ pc = "idle"
    /\ copyIdx = 0
    /\ copySrc = << >>
    /\ reqNext = 0
    /\ intervalArg = << >>
    /\ tickInStore = FALSE

\* After setupUnoJoy(), observed for the passes of the requester, which asks
\* for the offsets in order as the firmware on the other chip does.
InitPass ==
    /\ Ready(1)
    /\ InitHist
    /\ InitApp
    /\ observe = "pass"

\* loop() of the sketch as the header documents it: setControllerData over
\* and over.
NextLoop ==
    \/ \E s \in SnapshotInputs : setControllerData(s)
    \/ StoreByte
    \/ setControllerDataExit
    \/ TIMER0_COMPA_vect
    \/ RequestInOrder
    \/ Transmit

SpecPass == InitPass /\ [][NextLoop]_vars

\* After setupUnoJoy(k), with no history recorded.
InitFrame ==
    /\ \E k \in Intervals : Ready(k)
    /\ InitHist
    /\ InitApp
    /\ observe = "none"

\* loop() of the header's example: it submits the one value Pressed, over
\* and over.
NextExample ==
    \/ setControllerData(Pressed)
    \/ StoreByte
    \/ setControllerDataExit
    \/ TIMER0_COMPA_vect
    \/ RequestInOrder
    \/ Transmit

SpecFrame == InitFrame /\ [][NextExample]_vars

\* After setupUnoJoy(), observed for the interrupt flag at the calls.
InitForceOn ==
    /\ Ready(1)
    /\ InitHist
    /\ InitApp
    /\ observe = "forceon"

\* loop() of a sketch that calls setControllerData from its own critical
\* sections, the serial line idle.
NextCritical ==
    \/ \E s \in SnapshotInputs : setControllerData(s)
    \/ StoreByte
    \/ setControllerDataExit
    \/ TIMER0_COMPA_vect
    \/ noInterrupts

SpecForceOn == InitForceOn /\ [][NextCritical]_vars

\* After setupUnoJoy(), observed for the requests served.
InitServed ==
    /\ Ready(1)
    /\ InitHist
    /\ InitApp
    /\ observe \in {"served", "outside"}

\* The handler and a requester that asks for any offset at any time, the
\* foreground idle.
NextServe ==
    \/ TIMER0_COMPA_vect
    \/ \E r \in Requests : Request(r)
    \/ Transmit

SpecServed == InitServed /\ [][NextServe]_vars

\* After setupUnoJoy(), with no history recorded.
InitReseed ==
    /\ Ready(1)
    /\ InitHist
    /\ InitApp
    /\ observe = "none"

\* A sketch that submits Pressed and calls setupUnoJoy() again.
NextReseed ==
    \/ setControllerData(Pressed)
    \/ StoreByte
    \/ setControllerDataExit
    \/ setupUnoJoy
    \/ StoreBlankByte
    \/ SerialBegin
    \/ TimerEnable
    \/ TIMER0_COMPA_vect
    \/ RequestInOrder
    \/ Transmit

SpecReseed == InitReseed /\ [][NextReseed]_vars

\* Before setup() runs, with no history recorded.
InitSeed ==
    /\ InitProg
    /\ InitHist
    /\ InitApp
    /\ observe = "none"

\* The sketch that calls setupUnoJoy() and leaves the buffer as it filled it.
NextSeed ==
    \/ setupUnoJoy
    \/ StoreBlankByte
    \/ SerialBegin
    \/ TimerEnable
    \/ TIMER0_COMPA_vect
    \/ RequestInOrder
    \/ Transmit

SpecSeed == InitSeed /\ [][NextSeed]_vars

\* The sketch that configures the library with either setupUnoJoy, and a
\* requester that asks for offset 0.
NextConfigure ==
    \/ setupUnoJoy
    \/ \E i \in Intervals : setupUnoJoyInt(i)
    \/ StoreInterval
    \/ StoreBlankByte
    \/ SerialBegin
    \/ TimerEnable
    \/ TIMER0_COMPA_vect
    \/ Request(0)
    \/ Transmit

SpecConfigure == InitSeed /\ [][NextConfigure]_vars

\* Before setup() runs, observed for the cadence of the polls.
InitCadence ==
    /\ InitProg
    /\ InitHist
    /\ InitApp
    /\ observe \in {"cadence", "recadence"}

\* The sketch that configures the interval, and a requester that asks for
\* offset 0.
NextReconfigure ==
    \/ \E i \in Intervals : setupUnoJoyInt(i)
    \/ StoreInterval
    \/ StoreBlankByte
    \/ SerialBegin
    \/ TimerEnable
    \/ TIMER0_COMPA_vect
    \/ Request(0)
    \/ Transmit

SpecCadence == InitCadence /\ [][NextReconfigure]_vars

\* Before setup() runs, observed for the time a request waits.
InitLatency ==
    /\ InitProg
    /\ InitHist
    /\ InitApp
    /\ observe = "latency"

SpecLatency == InitLatency /\ [][NextReconfigure]_vars

(***************************************************************************)
(* The application building a value, as the header documents it:           *)
(*     myControllerData = getBlankDataForController();                      *)
(*     ControllerData.triangleOn = 1;  ControllerData.leftStickX = 90;      *)
(***************************************************************************)
AppFields == {"triangleOn", "squareOn", "leftStickX"}

AppValues == {0, 1, 90}

\* an assignment to a bit-field keeps the low bits that fit
Truncate(f, v) == IF f \in {"leftStickX", "leftStickY", "rightStickX", "rightStickY"}
                  THEN v % 256
                  ELSE v % 2

AppGetBlank(g) ==
    /\ appData' = << getBlankDataForController(g) >>
    /\ appBlank' = TRUE
    /\ blankReturns' = << Serialize(getBlankDataForController(g)) >>
    /\ UNCHANGED << progVars, histVars >>

AppAssign(f, v) ==
    /\ appData' = << [appData[1] EXCEPT ![f] = Truncate(f, v)] >>
    /\ appBlank' = FALSE
    /\ UNCHANGED blankReturns
    /\ UNCHANGED << progVars, histVars >>

NextApp ==
    \/ \E g \in Garbage : AppGetBlank(g)
    \/ \E f \in AppFields, v \in AppValues : AppAssign(f, v)

InitSpecApp ==
    /\ InitProg
    /\ InitHist
    /\ InitApp
    /\ observe = "none"

SpecApp == InitSpecApp /\ [][NextApp]_vars

(***************************************************************************)
(* Properties.                                                             *)
(***************************************************************************)
\* a step of the handler that answered at least one request
PollStep == serialRx # << >> /\ serialRx' = << >>

\* the bytes the step wrote to the serial port
Written == SubSeq(serialTx', Len(serialTx) + 1, Len(serialTx'))

\* the handler can execute
TickEnabled == OCIE0A /\ SREG_I

AllZero == Filled(0, 0, 0)
AllOnes == Filled(1, 127, 255)

\* C1: whenever the tick handler can execute, controllerDataBuffer is, as a
\* whole, a blank snapshot or a snapshot handed to setControllerData; never
\* part of one value and part of another.
C1_BufferWhole == TickEnabled => controllerDataBuffer \in WholeImages

\* C2 as stated: every full pass over the offsets 0 .. N-1, answered while the
\* writer calls setControllerData (and nothing else), is byte for byte one
\* snapshot as a whole.
C2_EveryPassWhole == passLen = StructSize => passWhole # {}

\* C2 amended: every full pass over the offsets 0 .. N-1 during which
\* setControllerData is not called is byte for byte one snapshot as a whole.
C2_CleanPassWhole == (passLen = StructSize /\ passClean) => passWhole # {}

C2_Witness ==
    /\ passLen = StructSize
    /\ passClean
    /\ passWhole = {Serialize(AllOnes)}
    /\ lastSet = << AllOnes >>

\* byte i of the serialized form of s, bit for bit (padding included)
WireByte(s, i) ==
    CASE i = 0 -> s.triangleOn + 2 * s.circleOn + 4 * s.squareOn + 8 * s.crossOn
                  + 16 * s.l1On + 32 * s.l2On + 64 * s.l3On + 128 * s.r1On
      [] i = 1 -> s.r2On + 2 * s.r3On + 4 * s.selectOn + 8 * s.startOn
                  + 16 * s.homeOn + 32 * s.dpadLeftOn + 64 * s.dpadUpOn
                  + 128 * s.dpadRightOn
      [] i = 2 -> s.dpadDownOn + 2 * s.padding
      [] i = 3 -> s.leftStickX
      [] i = 4 -> s.leftStickY
      [] i = 5 -> s.rightStickX
      [] i = 6 -> s.rightStickY

WireImage(s) == [i \in 1 .. StructSize |-> WireByte(s, i - 1)]

\* C3: once setControllerData(S) has returned, a pass over the offsets
\* 0 .. N-1 with no later setControllerData or setupUnoJoy call yields exactly
\* the N bytes of S, padding bits included.
C3_RoundTrip ==
    (passLen = StructSize /\ passClean /\ lastSet # << >> /\ pc = "idle")
        => passWhole = {WireImage(lastSet[1])}

C3_Witness ==
    /\ passLen = StructSize
    /\ passClean
    /\ pc = "idle"
    /\ lastSet = << Pressed >>
    /\ passWhole = {WireImage(Pressed)}

\* the service before the j-th one of this step: << offset, byte >>
Previous(j) == IF j = 1 THEN lastServed ELSE << serialRx[j - 1], Written[j - 1] >>

\* C4: a request byte served twice in a row with no setControllerData call
\* in between gets the same response byte both times.
C4_Idempotent ==
    [][PollStep =>
         \A j \in 1 .. Len(serialRx) :
             (Previous(j) # << >> /\ Previous(j)[1] = serialRx[j])
                 => Written[j] = Previous(j)[2]]_vars

\* C5: no request is answered with a byte read outside controllerDataBuffer.
C5_NeverReadsOutside == ~readOutside

\* C6 as stated: counting the handler's invocations from the return of
\* setupUnoJoy, the poll runs on the invocations K, 2K, 3K, ... and on no other.
C6_CadenceSinceSetup ==
    (observe = "recadence" /\ serialCheckInterval >= 1 /\ pc = "idle"
        /\ lastTick # "none")
        => (lastTick = "poll" <=> tickPhase = 0)

\* C6 amended: counting from the first return of setupUnoJoy, and as long as
\* setupUnoJoy is not called again, the poll runs on the invocations
\* K, 2K, 3K, ... and on no other.
C6_CadenceSinceFirstSetup ==
    (observe = "cadence" /\ serialCheckInterval >= 1 /\ ~reconfigured
        /\ lastTick # "none")
        => (lastTick = "poll" <=> tickPhase = 0)

C6_Witness ==
    /\ observe = "cadence"
    /\ serialCheckInterval = 2
    /\ ~reconfigured
    /\ lastTick = "poll"
    /\ tickPhase = 0
    /\ serialTx # << >>

\* the responses to the requests of a step agree with the struct s on the
\* triangle bit (offset 0, bit 0) and on the sticks at the offsets first .. first+3
LayoutHolds(s, first) ==
    \A j \in 1 .. Len(serialRx) :
        /\ serialRx[j] = 0 => BitOf(Written[j], 0) = s.triangleOn
        /\ serialRx[j] = first => Written[j] = s.leftStickX
        /\ serialRx[j] = first + 1 => Written[j] = s.leftStickY
        /\ serialRx[j] = first + 2 => Written[j] = s.rightStickX
        /\ serialRx[j] = first + 3 => Written[j] = s.rightStickY

\* C7 as stated: after a value was submitted, offset 0 answers with triangleOn
\* in bit 0 and the offsets 2, 3, 4, 5 answer with leftStickX, leftStickY,
\* rightStickX, rightStickY.
C7_SticksFromByte2 ==
    [][(PollStep /\ lastSet # << >> /\ pc = "idle") => LayoutHolds(lastSet[1], 2)]_vars

\* C7 amended: after a value was submitted, offset 0 answers with triangleOn
\* in bit 0 and the offsets 3, 4, 5, 6 answer with leftStickX, leftStickY,
\* rightStickX, rightStickY (offset 2 holds dpadDownOn and the padding).
C7_SticksFromByte3 ==
    [][(PollStep /\ lastSet # << >> /\ pc = "idle") => LayoutHolds(lastSet[1], 3)]_vars

C7_Witness ==
    /\ lastSet = << Pressed >>
    /\ pc = "idle"
    /\ passLen = 4
    /\ passClean
    /\ serialTx = << 200 >>

\* C8: the value getBlankDataForController returns serializes to button bits
\* that are all 0 and to four stick bytes that are all 128.
C8_BlankValue ==
    appBlank =>
        LET img == Serialize(appData[1])
        IN  /\ ByteAt(img, 0) = 0
            /\ ByteAt(img, 1) = 0
            /\ BitOf(ByteAt(img, 2), 0) = 0
            /\ \A i \in 3 .. 6 : ByteAt(img, i) = 128

C8_Witness == appBlank /\ appData[1].padding = PaddingMax

\* C9: any two calls of getBlankDataForController return values with the same
\* serialized bytes, the byte of dpadDownOn and the padding included.
C9_BlankDeterministic ==
    [][(blankReturns # << >> /\ blankReturns' # << >>)
          => blankReturns' = blankReturns]_vars

\* C10: from the return of setupUnoJoy to the first setControllerData call,
\* every request for an offset of the struct is answered with the byte of a
\* blank snapshot: no button bit set, every stick 128.
C10_BlankUntilSet ==
    [][(PollStep /\ lastSet = << >>) =>
         \A j \in 1 .. Len(serialRx) :
             /\ serialRx[j] \in {0, 1} => Written[j] = 0
             /\ serialRx[j] = 2 => BitOf(Written[j], 0) = 0
             /\ serialRx[j] \in 3 .. 6 => Written[j] = 128]_vars

C10_Witness ==
    /\ lastSet = << >>
    /\ OCIE0A
    /\ controllerDataBuffer = BlankImage[PaddingMax]
    /\ serialTx = << 2 * PaddingMax, 128 >>

\* the step is a handler invocation that polled
Polled == TIMER0_COMPA_vect /\ PollDue(serialCheckCounter + 1, serialCheckInterval)

\* C11: with the interval K >= 1 (not stored anew in between), requests that a
\* handler invocation finds in the buffer are answered no later than K
\* invocations afterwards.
C11_AnsweredWithinInterval ==
    latency # << >> =>
        /\ latency[1] = "wait" => latency[2] >= 1
        /\ latency[1] = "done" => latency[2] >= 0

C11_Witness ==
    /\ observe = "latency"
    /\ serialCheckInterval = 2
    /\ latency = << "done", 1 >>
    /\ serialTx # << >>

\* C12: a poll that starts with the requests r1 .. rn buffered empties the
\* buffer and writes exactly n bytes, the j-th being the byte of
\* controllerDataBuffer at offset rj; with no request buffered it writes nothing.
C12_DrainAnswersEach ==
    [][Polled =>
         /\ serialRx' = << >>
         /\ Len(serialTx') = Len(serialTx) + Len(serialRx)
         /\ \A j \in 1 .. Len(serialRx) :
                /\ serialRx[j] \in Offsets
                /\ Written[j] = ByteAt(controllerDataBuffer, serialRx[j])]_vars

\* C13: the handler is not interleaved with the foreground, and the bytes
\* one invocation writes for offsets of the struct are bytes of one and the
\* same snapshot.
C13_OneSnapshotPerInvocation ==
    [][TIMER0_COMPA_vect =>
         /\ UNCHANGED << controllerDataBuffer, pc, copyIdx >>
         /\ \E w \in WholeImages :
                \A j \in 1 .. Len(Written) :
                    serialRx[j] \in Offsets => Written[j] = ByteAt(w, serialRx[j])]_vars

\* C14: an invocation of the handler writes at most as many bytes as there
\* were requests buffered at its start, one per request it consumed, and
\* consumes no byte that was not buffered.
C14_DrainBounded ==
    [][TIMER0_COMPA_vect =>
         /\ Len(serialTx') - Len(serialTx) <= Len(serialRx)
         /\ Len(serialTx') - Len(serialTx) = Len(serialRx) - Len(serialRx')
         /\ serialRx' \in {serialRx, << >>}]_vars

C14_Witness ==
    /\ OCIE0A
    /\ serialCheckInterval = 2
    /\ serialCheckCounter = 0
    /\ serialRx = << >>
    /\ Len(serialTx) = MaxOutstanding

Max(a, b) == IF a >= b THEN a ELSE b

\* C15 as stated: between ticks, 0 <= serialCheckCounter <
\* max(serialCheckInterval, 1).
C15_CounterBelowInterval ==
    (OCIE0A /\ pc = "idle") =>
        /\ 0 <= serialCheckCounter
        /\ serialCheckCounter < Max(serialCheckInterval, 1)

\* C15 amended: when an invocation of the handler completes,
\* 0 <= serialCheckCounter < max(serialCheckInterval, 1).
C15_CounterBelowIntervalAtReturn ==
    [][TIMER0_COMPA_vect =>
         /\ 0 <= serialCheckCounter'
         /\ serialCheckCounter' < Max(serialCheckInterval', 1)]_vars

C15_Witness ==
    /\ OCIE0A
    /\ pc = "idle"
    /\ serialCheckInterval = MaxInterval
    /\ serialCheckCounter = MaxInterval - 1

\* C16: with an interval of 0 or less, as with the interval 1, every
\* invocation of the handler polls.
C16_NonPositivePollsAlways ==
    [][(TIMER0_COMPA_vect /\ serialCheckInterval <= 1) =>
         /\ serialCheckCounter' = 0
         /\ serialRx' = << >>
         /\ Len(serialTx') = Len(serialTx) + Len(serialRx)]_vars

C16_Witness ==
    /\ OCIE0A
    /\ pc = "idle"
    /\ serialCheckInterval = NegInterval
    /\ serialCheckCounter = 0
    /\ serialTx # << >>

\* C17: until the compare-match interrupt is enabled for the first time
\* nothing is answered and nothing counted, and it is enabled only with the
\* interval stored and controllerDataBuffer holding the blank value.
C17_EnabledAfterSeed ==
    [][/\ ~OCIE0A => (serialTx' = << >> /\ serialCheckCounter' = 0)
       /\ (~OCIE0A /\ OCIE0A') =>
              /\ controllerDataBuffer' \in BlankImages
              /\ serialCheckInterval' =
                     IF intervalArg = << >> THEN 1 ELSE intervalArg[1]]_vars

C17_Witness ==
    /\ OCIE0A
    /\ intervalArg = << >>
    /\ serialCheckInterval = MaxInterval
    /\ controllerDataBuffer = BlankImage[PaddingMax]
    /\ serialTx # << >>

\* C18: setControllerData returns with interrupts enabled, also when it was
\* called with interrupts disabled.
C18_ReturnsEnabled ==
    [][(pc = "set_copy" /\ pc' = "idle") => SREG_I']_vars

C18_Witness ==
    /\ calledMasked
    /\ pc = "idle"
    /\ SREG_I
    /\ OCIE0A
    /\ lastSet = << Pressed >>
    /\ controllerDataBuffer = Serialize(Pressed)

\* the step is one of setControllerData
SetStep ==
    \/ \E s \in SnapshotInputs : setControllerData(s)
    \/ pc = "set_copy" /\ StoreByte
    \/ setControllerDataExit

\* C19 as stated: the handler changes only serialCheckCounter, the receive
\* buffer and the transmit stream; setControllerData leaves the counter, the
\* interval and both serial channels unchanged.
C19_FrameAsStated ==
    [][/\ TIMER0_COMPA_vect =>
              UNCHANGED << controllerDataBuffer, serialCheckInterval, pin13Output >>
       /\ SetStep =>
              UNCHANGED << serialCheckCounter, serialCheckInterval, serialRx,
                           serialTx >>]_vars

\* C19 amended: the handler leaves controllerDataBuffer and
\* serialCheckInterval unchanged (it changes the counter, the receive buffer,
\* the transmit stream and the mode of pin 13); setControllerData leaves the
\* counter, the interval, both serial channels and pin 13 unchanged.
C19_Frame ==
    [][/\ TIMER0_COMPA_vect =>
              UNCHANGED << controllerDataBuffer, serialCheckInterval >>
       /\ SetStep =>
              UNCHANGED << serialCheckCounter, serialCheckInterval, serialRx,
                           serialTx, pin13Output >>]_vars

C19_Witness ==
    /\ pc = "idle"
    /\ lastSet = << Pressed >>
    /\ controllerDataBuffer = Serialize(Pressed)
    /\ pin13Output
    /\ serialCheckCounter = 1
    /\ serialRx # << >>
    /\ serialTx # << >>

====
